---- MODULE Spec2Model ----
(***************************************************************************)
(* The invoice cache of App.tsx (the `invoices` list, the server page      *)
(* `invoiceListData`, the session token) and the asynchronous handlers     *)
(* that mutate it optimistically, reconcile it with the server's answer or *)
(* roll it back.  Every handler is cut at its suspension points (the       *)
(* awaited transport calls): one action per synchronous piece.             *)
(***************************************************************************)
EXTENDS Integers, Sequences, FiniteSets, TLC

\* ------------------------------------------------------------------ bounds
MaxId == 3       \* the server's invoice ids are 1..MaxId
MaxOps == 2      \* handler invocations by the user in one behaviour
MaxBatch == 2    \* longest id list handed to a bulk handler
MaxBulk == 1     \* bulk handler invocations in one behaviour
MaxTotal == 4    \* largest totalItems the server reports
MaxPage == 2     \* largest page number the server delivers
PageSize == 2    \* the pageSize of the pages the server delivers
MaxStatus == 5   \* invoice statuses are 0..MaxStatus: the five of the enum and one beyond
MaxLines == 2    \* most lines a quote form holds
MaxSubmits == 2  \* onSubmit calls of a quote form in one behaviour
MaxCancels == 1  \* onClose calls after which the cancel button is not clicked again

\* --------------------------------------------------------------- constants
DRAFT == 0
READY == 1
AWAITING_CLEARANCE == 2
VALIDATED == 3
REJECTED == 4

Ids == 1..MaxId

\* Date.now() (line 360) is an integer of the same number space as the
\* server's ids, and no line compares it with the cached ids: the readings the
\* model draws meet the server's ids at MaxId.
ClockValues == {MaxId, MaxId + 1}

NoToken == "null"
StoredToken == "jwt"

\* The token a 'tokenRefreshed' event carries.
RefreshedToken == "jwt2"

\* tokenManager.getCompanyData(): the company stored with the token; null.
NoCompany == "null"
StoredCompany == "company"

\* ----------------------------------------------------------------- records
\* An Invoice, reduced to the fields the handlers read or write: `data`
\* stands for the edited content (number, date, customer, totals, lines).
NoInvoice == [id |-> 0, status |-> DRAFT, sub |-> 0, rej |-> 0, data |-> "none"]

\* The server's collection: invoice i as the LIST endpoint delivers it.
ServerInvoice(i) ==
  [id |-> i,
   status |-> IF i % 3 = 1 THEN READY ELSE IF i % 3 = 2 THEN DRAFT ELSE REJECTED,
   sub |-> IF i % 3 = 0 THEN 1 ELSE 0,
   rej |-> IF i % 3 = 0 THEN 1 ELSE 0,
   data |-> "listed"]

\* Math.ceil(a / b) for b > 0 (\div rounds towards minus infinity).
Ceil(a, b) == -((-a) \div b)

Min(a, b) == IF a < b THEN a ELSE b
Max(a, b) == IF a > b THEN a ELSE b

NoPagination == [page |-> 0, pageSize |-> 0, totalItems |-> 0, totalPages |-> 0]

\* useState<any>(null)
NullData == [isNull |-> TRUE, invoices |-> <<>>, pagination |-> NoPagination]

\* Strictly increasing id sequences of length k: the server's order.
IdSeqs(k) == {s \in [1..k -> Ids] : \A i, j \in 1..k : i < j => s[i] < s[j]}

\* Records the server puts on page `page` of a collection of `total` items.
PageLen(page, total) == Max(0, Min(PageSize, total - (page - 1) * PageSize))

\* Every body a 2xx answer of the LIST endpoint may carry.
ServerPages ==
  {[isNull |-> FALSE,
    invoices |-> [i \in 1..Len(s) |-> ServerInvoice(s[i])],
    pagination |-> [page |-> p, pageSize |-> PageSize, totalItems |-> n,
                    totalPages |-> Ceil(n, PageSize)]] :
     <<p, n, s>> \in {x \in (1..MaxPage) \X (0..MaxTotal) \X
                        UNION {IdSeqs(k) : k \in 0..PageSize} :
                          Len(x[3]) = PageLen(x[1], x[2])}}

\* ------------------------------------------------------------------- state
VARIABLES
  invoices,         \* useState<Invoice[]>([])
  invoiceListData,  \* useState<any>(null)
  token,            \* useState<string | null>
  authStored,       \* tokenManager still holds the auth data
  ops,              \* the handler invocations that have not finished
  started,          \* number of handler invocations so far
  bulks,            \* number of bulk handler invocations so far
  last,             \* the step just taken (history, read only by properties)
  userRole,         \* the role a permission function is asked about
  invoiceStatus,    \* the status of the invoice it is asked about
  targetStatus,     \* the target of the transition it is asked about
  answer,           \* what the permission functions returned
  company,          \* useState<Company | null>
  issueDate,        \* QuoteForm: useState of the issue date ("" when empty)
  customerId,       \* QuoteForm: useState<number | null> (0 stands for null)
  quoteStatus,      \* QuoteForm: the `status` state
  lines,            \* QuoteForm: useState<NewLine[]>
  disabled,         \* QuoteForm: the `disabled` prop
  errors,           \* QuoteForm: useState<FormErrors>({})
  isSubmitting,     \* QuoteForm: useState(false)
  backendErrors,    \* QuoteForm: the keys of useState<BackendErrorResponse>({})
  pendingSubmits,   \* onSubmit calls that have not settled
  onSubmitCalls,    \* number of onSubmit calls so far
  onCloseCalls,     \* number of onClose calls so far
  formLast          \* the step the form just took (history)

\* The cache and the session of App.tsx.
cache == <<invoices, invoiceListData, token, authStored, ops, started, bulks, last>>

\* The permission utilities: App.tsx calls none of them.
policy == <<userRole, invoiceStatus, targetStatus, answer>>

\* The quote form, a component of its own: it shares no state with App.tsx.
quoteForm == <<issueDate, customerId, quoteStatus, lines, disabled, errors, isSubmitting,
               backendErrors, pendingSubmits, onSubmitCalls, onCloseCalls, formLast>>

vars == <<invoices, invoiceListData, token, authStored, ops, started, bulks, last,
          userRole, invoiceStatus, targetStatus, answer, company,
          issueDate, customerId, quoteStatus, lines, disabled, errors, isSubmitting,
          backendErrors, pendingSubmits, onSubmitCalls, onCloseCalls, formLast>>

IdSet(s) == {s[i].id : i \in DOMAIN s}

\* Array.prototype.find: the first record with the id, or NoInvoice (undefined).
Find(s, id) ==
  IF id \in IdSet(s)
  THEN s[CHOOSE i \in DOMAIN s : s[i].id = id /\ \A j \in 1..(i - 1) : s[j].id # id]
  ELSE NoInvoice

SeqSet(s) == {s[i] : i \in DOMAIN s}

\* A faulty lookup: only the missing id (the `!invoice.id` test) is rejected.
NotCachedNoId(cachedInvoices, id) == id = 0

\* !originalInvoice, for originalInvoice = invoices.find(inv => inv.id === id).
NotCached(cachedInvoices, id) == Find(cachedInvoices, id) = NoInvoice

\* ------------------------------------------------------ optimistic updates
optimisticallyUpdateInvoice(prev, updatedInvoice) ==
  [i \in DOMAIN prev |->
     IF prev[i].id = updatedInvoice.id THEN updatedInvoice ELSE prev[i]]

optimisticallyRemoveInvoice(prev, id) ==
  SelectSeq(prev, LAMBDA inv : inv.id # id)

optimisticallyAddInvoice(prev, newInvoice) == <<newInvoice>> \o prev

\* dgiSubmissionId || inv.dgiSubmissionId: 0 stands for undefined.
WithStatus(inv, newStatus, dgiSubmissionId, dgiRejectionReason) ==
  [inv EXCEPT !.status = newStatus,
              !.sub = IF dgiSubmissionId # 0 THEN dgiSubmissionId ELSE inv.sub,
              !.rej = IF dgiRejectionReason # 0 THEN dgiRejectionReason ELSE inv.rej]

\* A faulty optimisticallyUpdateInvoiceStatus: a call without a submission id
\* erases the one the record has.
optimisticallyUpdateInvoiceStatusErasing(prev, id, newStatus, dgiSubmissionId, dgiRejectionReason) ==
  [i \in DOMAIN prev |->
     IF prev[i].id = id
     THEN [prev[i] EXCEPT !.status = newStatus, !.sub = dgiSubmissionId]
     ELSE prev[i]]

\* optimisticallyUpdateInvoiceStatus, its setInvoices part.
optimisticallyUpdateInvoiceStatus(prev, id, newStatus, dgiSubmissionId, dgiRejectionReason) ==
  [i \in DOMAIN prev |->
     IF prev[i].id = id
     THEN WithStatus(prev[i], newStatus, dgiSubmissionId, dgiRejectionReason)
     ELSE prev[i]]

\* optimisticallyUpdateInvoiceStatus, its setInvoiceListData part.
optimisticallyUpdateListStatus(prev, id, newStatus, dgiSubmissionId, dgiRejectionReason) ==
  IF prev.isNull THEN prev
  ELSE [prev EXCEPT !.invoices =
          optimisticallyUpdateInvoiceStatus(prev.invoices, id, newStatus,
                                            dgiSubmissionId, dgiRejectionReason)]

\* A faulty silentlyUpdateInvoiceInList: the page is left as it is.
silentlyUpdateInvoiceInListNoOp(prev, updatedInvoice) == prev

silentlyUpdateInvoiceInList(prev, updatedInvoice) ==
  IF prev.isNull THEN prev
  ELSE [prev EXCEPT !.invoices = optimisticallyUpdateInvoice(prev.invoices, updatedInvoice)]

silentlyAddInvoiceToList(prev, newInvoice) ==
  IF prev.isNull THEN prev
  ELSE [prev EXCEPT
          !.invoices = <<newInvoice>> \o prev.invoices,
          !.pagination.totalItems = prev.pagination.totalItems + 1,
          !.pagination.totalPages =
             Ceil(prev.pagination.totalItems + 1, prev.pagination.pageSize)]

\* A faulty RemoveFromListData: totalItems is adjusted, totalPages is left.
RemoveFromListDataStalePages(prev, idset, count) ==
  IF prev.isNull THEN prev
  ELSE [prev EXCEPT
          !.invoices = SelectSeq(prev.invoices, LAMBDA inv : inv.id \notin idset),
          !.pagination.totalItems = prev.pagination.totalItems - count]

\* The updater of handleDeleteInvoice / handleBulkDelete: drop the records
\* whose id is listed, take `count` off totalItems, recompute totalPages.
RemoveFromListData(prev, idset, count) ==
  IF prev.isNull THEN prev
  ELSE [prev EXCEPT
          !.invoices = SelectSeq(prev.invoices, LAMBDA inv : inv.id \notin idset),
          !.pagination.totalItems = prev.pagination.totalItems - count,
          !.pagination.totalPages =
             Ceil(prev.pagination.totalItems - count, prev.pagination.pageSize)]

\* A faulty willPageBeIncomplete: the last page but one counts as the last.
willPageBeIncompleteOffByOne(data) ==
  /\ ~data.isNull
  /\ Len(data.invoices) = data.pagination.pageSize
  /\ data.pagination.page < data.pagination.totalPages - 1

\* willPageBeIncomplete of handleDeleteInvoice and handleBulkDelete (which
\* adds ids.length > 0).
willPageBeIncomplete(data) ==
  /\ ~data.isNull
  /\ Len(data.invoices) = data.pagination.pageSize
  /\ data.pagination.page < data.pagination.totalPages

\* ------------------------------------------------------------- invocations
\* One handler invocation: its closure (the snapshots taken before the first
\* await) and the place it is suspended at.  `before` (the cache when the
\* handler was invoked) and `alone` (no other invocation was in flight then)
\* are history, read only by the properties.
OpRecord(n, kind, cachedInvoices, cachedData, alone) ==
  [n |-> n, kind |-> kind, pc |-> "call",
   id |-> 0, ids |-> <<>>,
   originalData |-> NullData, originalInvoice |-> NoInvoice,
   originalInvoices |-> <<>>, updatedInvoice |-> NoInvoice,
   tempInvoice |-> NoInvoice,
   willPageBeIncomplete |-> FALSE,
   listRequest |-> [page |-> 0, pageSize |-> 0],
   pending |-> {}, results |-> <<>>, settled |-> FALSE,
   before |-> [invoices |-> cachedInvoices, data |-> cachedData],
   alone |-> alone]

NewOp(kind) == OpRecord(started + 1, kind, invoices, invoiceListData, ops = {})

NoOp == OpRecord(0, "none", <<>>, NullData, TRUE)

\* The fetchInvoices call of the mount effect.
MountFetch == OpRecord(0, "fetch", <<>>, NullData, TRUE)

\* What the step did, and for which invocation (n, kind): ev is "invoke",
\* "notFound", "commit" (the success path ran to its end), "repair" (the
\* success path issued the page-repair call), "repaired", "rollback",
\* "settle", "answer" (a call of a batch answered and the batch waits on) or
\* "late" (a call of a batch answered after the handler had settled); promise
\* tells how the promise the handler returned has settled ("pending" while it
\* has not); toast lists the notifications the step showed, in order; results
\* holds the submission ids the success path of a submit worked with.
Event(ev, o, status, promise) ==
  [ev |-> ev, n |-> o.n, kind |-> o.kind, status |-> status, promise |-> promise,
   toast |-> <<>>, results |-> <<>>]

\* result.dgiSubmissionId of the 2xx answers the success path of a submit read
\* (lines 688-702 and 910-915): 0 where the answer carried none.
WithResults(e, results) == [e EXCEPT !.results = results]

\* toast.loading(...), and toast.success(...) and toast.error(...) with or
\* without the id of the loading toast: the notification is shown in the step.
ToastLoading(e) == [e EXCEPT !.toast = Append(@, "loading")]

ToastSuccess(e) == [e EXCEPT !.toast = Append(@, "success")]

\* A faulty toast.error: nothing is shown.
ToastErrorSilent(e) == e

ToastError(e) == [e EXCEPT !.toast = Append(@, "error")]

\* A user can reach the handlers only while a token is set (the routes that
\* render InvoiceList are mounted only then).
CanInvoke == token # NoToken /\ started < MaxOps

\* tokenManager.clearAuthData(); setToken(null)
ClearSession == token' = NoToken /\ authStored' = FALSE

\* ------------------------------------------------------------ fetchInvoices
FetchInvoices ==
  /\ CanInvoke
  /\ ops' = ops \cup {NewOp("fetch")}
  /\ started' = started + 1
  /\ UNCHANGED <<bulks, policy, company, quoteForm>>
  /\ last' = Event("invoke", NewOp("fetch"), "none", "pending")
  /\ UNCHANGED <<invoices, invoiceListData, token, authStored>>

\* Lines 252-290: a 401 answer, a failure (a non-2xx answer or a throw of
\* fetch: both end in the catch block), or a page.
FetchResponse ==
  \E o \in ops :
    /\ o.kind = "fetch"
    /\ ops' = ops \ {o}
    /\ \/ /\ ClearSession
          /\ last' = Event("settle", o, "401", "resolved")
          /\ UNCHANGED <<invoices, invoiceListData>>
       \/ /\ last' = ToastError(Event("settle", o, "fail", "resolved"))
          /\ UNCHANGED <<invoices, invoiceListData, token, authStored>>
       \/ \E data \in ServerPages :
            /\ invoiceListData' = data
            /\ invoices' = data.invoices
            /\ last' = Event("settle", o, "ok", "resolved")
            /\ UNCHANGED <<token, authStored>>
    /\ UNCHANGED <<started, bulks, policy, company, quoteForm>>

\* ------------------------------------------------------ handleDeleteInvoice
\* The answers of a mutating transport call: 2xx, 401, another non-2xx.
Statuses == {"ok", "401", "fail"}

\* The outcomes of the call of a single-record handler: an answer, or no
\* answer at all (fetch throws).
Outcomes == Statuses \cup {"throw"}

\* Lines 614-617, 704-707, 434-439 and 527-529: a throw of fetch lands in the
\* handler's catch block, which reverts nothing.
Caught(o, promise) ==
  /\ ops' = ops \ {o}
  /\ last' = IF o.kind \in {"delete", "submit"}
             THEN ToastError(Event("caught", o, "throw", promise))
             ELSE Event("caught", o, "throw", promise)
  /\ UNCHANGED <<invoices, invoiceListData, token, authStored>>

\* Lines 536-541: the id is not in `invoices`.
DeleteNotFound ==
  \E id \in Ids \cup ClockValues :
    /\ CanInvoke
    /\ NotCached(invoices, id)
    /\ started' = started + 1
    /\ UNCHANGED <<bulks, policy, company, quoteForm>>
    /\ last' = ToastError(ToastLoading(Event("notFound", [NewOp("delete") EXCEPT !.id = id], "none", "resolved")))
    /\ UNCHANGED <<invoices, invoiceListData, token, authStored, ops>>

DeleteInvoke ==
  \E id \in {x \in Ids \cup ClockValues : ~NotCached(invoices, x)} :
    LET o == [NewOp("delete") EXCEPT
                !.id = id,
                !.originalData = invoiceListData,
                !.originalInvoice = Find(invoices, id),
                !.willPageBeIncomplete = willPageBeIncomplete(invoiceListData)]
    IN /\ CanInvoke
       /\ invoices' = optimisticallyRemoveInvoice(invoices, id)
       /\ invoiceListData' = RemoveFromListData(invoiceListData, {id}, 1)
       /\ ops' = ops \cup {o}
       /\ started' = started + 1
       /\ UNCHANGED <<bulks, policy, company, quoteForm>>
       /\ last' = ToastLoading(Event("invoke", o, "none", "pending"))
       /\ UNCHANGED <<token, authStored>>

\* The page-repair request of lines 596-598 and 830-832: the page and the
\* pageSize of the page the handler closed over.
RepairRequest(o) ==
  [page |-> o.originalData.pagination.page,
   pageSize |-> o.originalData.pagination.pageSize]

\* Lines 593-614 and 827-848: after the last 2xx answer, either the silent
\* refresh of the page is requested or the handler is done.
SuccessPath(o, status) ==
  /\ IF o.willPageBeIncomplete
     THEN /\ ops' = (ops \ {o}) \cup {[o EXCEPT !.pc = "repair", !.pending = {},
                                              !.listRequest = RepairRequest(o)]}
          /\ last' = Event("repair", o, status, "pending")
     ELSE /\ ops' = ops \ {o}
          /\ last' = ToastSuccess(Event("commit", o, status, "resolved"))
  /\ UNCHANGED <<invoices, invoiceListData>>

\* A faulty DeleteRollback: the record is put back, the page is not.
DeleteRollbackRecordOnly(o, status) ==
  /\ invoices' = optimisticallyAddInvoice(invoices, o.originalInvoice)
  /\ UNCHANGED invoiceListData
  /\ ops' = ops \ {o}
  /\ last' = ToastError(Event("rollback", o, status, "resolved"))

\* A faulty DeleteRollback: after reverting, the DELETE call is issued again.
DeleteRollbackRetrying(o, status) ==
  /\ invoices' = optimisticallyAddInvoice(invoices, o.originalInvoice)
  /\ invoiceListData' = o.originalData
  /\ ops' = ops
  /\ last' = ToastError(Event("rollback", o, status, "pending"))

\* Lines 575-591: the 401 and the non-2xx answers of the DELETE call.
DeleteRollback(o, status) ==
  /\ invoices' = optimisticallyAddInvoice(invoices, o.originalInvoice)
  /\ invoiceListData' = o.originalData
  /\ ops' = ops \ {o}
  /\ last' = ToastError(Event("rollback", o, status, "resolved"))

\* The continuation after the DELETE call: lines 570-618.
DeleteResponse ==
  \E o \in ops, status \in Outcomes :
    /\ o.kind = "delete" /\ o.pc = "call"
    /\ IF status = "throw"
       THEN Caught(o, "resolved")
       ELSE /\ IF status = "401" THEN ClearSession ELSE UNCHANGED <<token, authStored>>
            /\ IF status = "ok" THEN SuccessPath(o, status) ELSE DeleteRollback(o, status)
    /\ UNCHANGED <<started, bulks, policy, company, quoteForm>>

\* The answers of the page-repair LIST call: a page, a non-2xx status (401
\* included), or no answer at all (fetch throws).
RepairStatuses == {"401", "fail", "throw"}

\* Lines 605-608 and 839-842: a 2xx answer replaces the page.
RepairOk(refreshedData) == invoiceListData' = refreshedData

\* The silent refresh of the current page: lines 593-612 and 827-846.
RepairResponse ==
  \E o \in ops :
    /\ o.pc = "repair"
    /\ ops' = ops \ {o}
    /\ \/ \E refreshedData \in ServerPages :
            /\ refreshedData.pagination.page = o.listRequest.page
            /\ refreshedData.pagination.pageSize = o.listRequest.pageSize
            /\ RepairOk(refreshedData)
            /\ last' = ToastSuccess(Event("repaired", o, "ok", "resolved"))
       \/ \E status \in RepairStatuses :
            /\ last' = ToastSuccess(Event("repaired", o, status, "resolved"))
            /\ UNCHANGED invoiceListData
    /\ UNCHANGED <<invoices, token, authStored, started, bulks, policy, company, quoteForm>>

\* ------------------------------------------------------ handleCreateInvoice
\* The bodies of a 2xx answer: JSON the handler can parse, or none (an empty
\* body, or text JSON.parse rejects: the handler treats both alike).
Bodies == {"json", "empty"}

\* Ids the server may give a new invoice: none a cached record already has.
FreshIds(o) ==
  Ids \ (IdSet(optimisticallyRemoveInvoice(invoices, o.tempInvoice.id))
           \cup IdSet(invoiceListData.invoices))

\* Lines 358-385: the temporary invoice, with Date.now() as its id.
CreateInvoke ==
  \E now \in ClockValues :
    LET tempInvoice == [id |-> now, status |-> DRAFT, sub |-> 0, rej |-> 0,
                        data |-> "draft"]
        o == [NewOp("create") EXCEPT !.id = now, !.tempInvoice = tempInvoice]
    IN /\ CanInvoke
       /\ invoices' = optimisticallyAddInvoice(invoices, tempInvoice)
       /\ ops' = ops \cup {o}
       /\ started' = started + 1
       /\ UNCHANGED <<bulks, policy, company, quoteForm>>
       /\ last' = Event("invoke", o, "none", "pending")
       /\ UNCHANGED <<invoiceListData, token, authStored>>

\* Lines 393-431: what the handler does with an answer of the POST call.
CreateAnswer(o, status) ==
  IF status = "401"
  THEN /\ ClearSession
       /\ invoices' = optimisticallyRemoveInvoice(invoices, o.tempInvoice.id)
       /\ last' = Event("rollback", o, status, "resolved")
       /\ UNCHANGED invoiceListData
  ELSE IF status = "fail"
  THEN /\ invoices' = optimisticallyRemoveInvoice(invoices, o.tempInvoice.id)
       /\ last' = Event("rollback", o, status, "rejected")
       /\ UNCHANGED <<invoiceListData, token, authStored>>
  ELSE \/ \E i \in FreshIds(o) :
            LET createdInvoice == [o.tempInvoice EXCEPT !.id = i, !.data = "server"]
            IN /\ invoices' = optimisticallyAddInvoice(
                                optimisticallyRemoveInvoice(invoices, o.tempInvoice.id),
                                createdInvoice)
               /\ invoiceListData' = silentlyAddInvoiceToList(invoiceListData, createdInvoice)
               /\ last' = ToastSuccess(Event("commit", [o EXCEPT !.updatedInvoice = createdInvoice],
                                             "json", "resolved"))
               /\ UNCHANGED <<token, authStored>>
       \/ /\ invoices' = optimisticallyRemoveInvoice(invoices, o.tempInvoice.id)
          /\ last' = ToastSuccess(Event("commit", o, "empty", "resolved"))
          /\ UNCHANGED <<invoiceListData, token, authStored>>

\* The continuation after the POST call: lines 386-440.
CreateResponse ==
  \E o \in ops, status \in Outcomes :
    /\ o.kind = "create"
    /\ IF status = "throw"
       THEN Caught(o, "rejected")
       ELSE /\ ops' = ops \ {o}
            /\ CreateAnswer(o, status)
    /\ UNCHANGED <<started, bulks, policy, company, quoteForm>>

\* ------------------------------------------------------ handleUpdateInvoice
\* Lines 444-452 and 527-529: the invoice carries no id (0 stands for none),
\* or its id is not in `invoices`.
UpdateNotFound ==
  \E id \in {0} \cup Ids \cup ClockValues :
    /\ CanInvoke
    /\ NotCached(invoices, id)
    /\ started' = started + 1
    /\ UNCHANGED <<bulks, policy, company, quoteForm>>
    /\ last' = LET e == Event("notFound", [NewOp("update") EXCEPT !.id = id], "none",
                               IF id = 0 THEN "resolved" ELSE "rejected")
               IN IF id = 0 THEN ToastError(e) ELSE e
    /\ UNCHANGED <<invoices, invoiceListData, token, authStored, ops>>

\* Lines 449-478: the edited fields over the cached record.
UpdateInvoke ==
  \E id \in {x \in Ids \cup ClockValues : ~NotCached(invoices, x)} :
    LET originalInvoice == Find(invoices, id)
        updatedInvoice == [originalInvoice EXCEPT !.data = "draft"]
        o == [NewOp("update") EXCEPT !.id = id, !.originalInvoice = originalInvoice,
                                     !.updatedInvoice = updatedInvoice]
    IN /\ CanInvoke
       /\ invoices' = optimisticallyUpdateInvoice(invoices, updatedInvoice)
       /\ ops' = ops \cup {o}
       /\ started' = started + 1
       /\ UNCHANGED <<bulks, policy, company, quoteForm>>
       /\ last' = Event("invoke", o, "none", "pending")
       /\ UNCHANGED <<invoiceListData, token, authStored>>

\* A faulty UpdateRollback: the optimistic record is left in the cache.
UpdateRollbackKeepsEdit(o) == UNCHANGED <<invoices, invoiceListData>>

\* A faulty UpdateRollback: the record goes back to the server's value, not to
\* the snapshot.
UpdateRollbackToServerValue(o) ==
  /\ invoices' = optimisticallyUpdateInvoice(invoices, ServerInvoice(o.id))
  /\ UNCHANGED invoiceListData

\* Lines 489-490 and 501-502: the optimistic update is reverted.
UpdateRollback(o) ==
  /\ invoices' = optimisticallyUpdateInvoice(invoices, o.originalInvoice)
  /\ UNCHANGED invoiceListData

\* Lines 486-524: what the handler does with an answer of the PUT call.
UpdateAnswer(o, status, body) ==
  IF status # "ok"
  THEN /\ body = "empty"
       /\ IF status = "401" THEN ClearSession ELSE UNCHANGED <<token, authStored>>
       /\ UpdateRollback(o)
       /\ last' = Event("rollback", o, status,
                        IF status = "401" THEN "resolved" ELSE "rejected")
  ELSE LET serverUpdatedInvoice == [o.updatedInvoice EXCEPT !.data = "server"]
       IN /\ IF body = "json"
             THEN /\ invoices' = optimisticallyUpdateInvoice(invoices, serverUpdatedInvoice)
                  /\ invoiceListData' =
                       silentlyUpdateInvoiceInList(invoiceListData, serverUpdatedInvoice)
             ELSE /\ invoiceListData' =
                       silentlyUpdateInvoiceInList(invoiceListData, o.updatedInvoice)
                  /\ UNCHANGED invoices
          /\ last' = ToastSuccess(Event("commit", o, body, "resolved"))
          /\ UNCHANGED <<token, authStored>>

\* The continuation after the PUT call: lines 480-529.
UpdateResponse ==
  \E o \in ops, status \in Outcomes, body \in Bodies :
    /\ o.kind = "update"
    /\ IF status = "throw"
       THEN body = "empty" /\ Caught(o, "rejected")
       ELSE /\ ops' = ops \ {o}
            /\ UpdateAnswer(o, status, body)
    /\ UNCHANGED <<started, bulks, policy, company, quoteForm>>

\* ------------------------------------------------------ handleSubmitInvoice
\* The dgiSubmissionId of a 2xx answer of the SUBMIT call: 0 when the body is
\* empty, unparseable or carries none.
DgiIds == {0, 2}

\* Lines 651-656: the id is not in `invoices`.
SubmitNotFound ==
  \E id \in Ids \cup ClockValues :
    /\ CanInvoke
    /\ NotCached(invoices, id)
    /\ started' = started + 1
    /\ UNCHANGED <<bulks, policy, company, quoteForm>>
    /\ last' = ToastError(ToastLoading(Event("notFound", [NewOp("submit") EXCEPT !.id = id], "none", "resolved")))
    /\ UNCHANGED <<invoices, invoiceListData, token, authStored, ops>>

\* Lines 651-660.
SubmitInvoke ==
  \E id \in {x \in Ids \cup ClockValues : ~NotCached(invoices, x)} :
    LET o == [NewOp("submit") EXCEPT !.id = id, !.originalInvoice = Find(invoices, id)]
    IN /\ CanInvoke
       /\ invoices' = optimisticallyUpdateInvoiceStatus(invoices, id, AWAITING_CLEARANCE, 0, 0)
       /\ invoiceListData' =
            optimisticallyUpdateListStatus(invoiceListData, id, AWAITING_CLEARANCE, 0, 0)
       /\ ops' = ops \cup {o}
       /\ started' = started + 1
       /\ UNCHANGED <<bulks, policy, company, quoteForm>>
       /\ last' = ToastLoading(Event("invoke", o, "none", "pending"))
       /\ UNCHANGED <<token, authStored>>

\* Lines 667-702: what the handler does with an answer of the SUBMIT call.
SubmitAnswer(o, status, dgiSubmissionId) ==
  IF status # "ok"
  THEN /\ dgiSubmissionId = 0
       /\ IF status = "401" THEN ClearSession ELSE UNCHANGED <<token, authStored>>
       /\ invoices' = optimisticallyUpdateInvoice(invoices, o.originalInvoice)
       /\ last' = ToastError(Event("rollback", o, status, "resolved"))
       /\ UNCHANGED invoiceListData
  ELSE /\ IF dgiSubmissionId # 0
          THEN /\ invoices' = optimisticallyUpdateInvoiceStatus(
                                invoices, o.id, AWAITING_CLEARANCE, dgiSubmissionId, 0)
               /\ invoiceListData' = optimisticallyUpdateListStatus(
                                invoiceListData, o.id, AWAITING_CLEARANCE, dgiSubmissionId, 0)
          ELSE UNCHANGED <<invoices, invoiceListData>>
       /\ last' = ToastSuccess(WithResults(Event("commit", o, status, "resolved"),
                                           <<dgiSubmissionId>>))
       /\ UNCHANGED <<token, authStored>>

\* The continuation after the SUBMIT call: lines 662-708.
SubmitResponse ==
  \E o \in ops, status \in Outcomes, dgiSubmissionId \in DgiIds :
    /\ o.kind = "submit"
    /\ IF status = "throw"
       THEN dgiSubmissionId = 0 /\ Caught(o, "resolved")
       ELSE /\ ops' = ops \ {o}
            /\ SubmitAnswer(o, status, dgiSubmissionId)
    /\ UNCHANGED <<started, bulks, policy, company, quoteForm>>

\* --------------------------------------------------------- bulk handlers
\* The id lists a bulk handler may be given: the ids of a selection, in any
\* order, cached or not, no id twice.
IdLists ==
  {ids \in UNION {[1..k -> Ids] : k \in 0..MaxBatch} :
     \A i, j \in DOMAIN ids : i # j => ids[i] # ids[j]}

ListSet(ids) == {ids[i] : i \in DOMAIN ids}

\* invoices.filter(inv => ids.includes(inv.id))
originalInvoicesOf(prev, ids) == SelectSeq(prev, LAMBDA inv : inv.id \in ListSet(ids))

\* ids.forEach(id => optimisticallyRemoveInvoice(id))
RemoveAll(prev, ids) == SelectSeq(prev, LAMBDA inv : inv.id \notin ListSet(ids))

\* originalInvoices.forEach(invoice => optimisticallyAddInvoice(invoice))
RECURSIVE AddAll(_, _)
AddAll(prev, originals) ==
  IF originals = <<>> THEN prev
  ELSE AddAll(optimisticallyAddInvoice(prev, Head(originals)), Tail(originals))

\* originalInvoices.forEach(invoice => optimisticallyUpdateInvoice(invoice))
RECURSIVE UpdateAll(_, _)
UpdateAll(prev, originals) ==
  IF originals = <<>> THEN prev
  ELSE UpdateAll(optimisticallyUpdateInvoice(prev, Head(originals)), Tail(originals))

\* ids.forEach(id => optimisticallyUpdateInvoiceStatus(id, 2)), setInvoices part.
RECURSIVE SubmitAll(_, _)
SubmitAll(prev, ids) ==
  IF ids = <<>> THEN prev
  ELSE SubmitAll(optimisticallyUpdateInvoiceStatus(prev, Head(ids), AWAITING_CLEARANCE, 0, 0),
                 Tail(ids))

\* results.forEach((result, index) => ...): the submission ids the answers
\* carry, applied in the order of the id list (setInvoices part).
RECURSIVE ApplyResults(_, _, _)
ApplyResults(prev, ids, results) ==
  IF ids = <<>> THEN prev
  ELSE ApplyResults(
         IF Head(results) # 0
         THEN optimisticallyUpdateInvoiceStatus(prev, Head(ids), AWAITING_CLEARANCE,
                                                Head(results), 0)
         ELSE prev,
         Tail(ids), Tail(results))

\* The setInvoiceListData parts of SubmitAll and ApplyResults.
SubmitAllOnList(prev, ids) ==
  IF prev.isNull THEN prev ELSE [prev EXCEPT !.invoices = SubmitAll(prev.invoices, ids)]

ApplyResultsOnList(prev, ids, results) ==
  IF prev.isNull THEN prev
  ELSE [prev EXCEPT !.invoices = ApplyResults(prev.invoices, ids, results)]

\* Promise.all settles: it rejects with the first call that rejects, and it
\* fulfils when the last call has fulfilled.  A call of a batch rejects on a
\* 401, on another non-2xx answer and on a throw of fetch, the last two with
\* the same effect: "fail" stands for both.
PromiseAllRejects(o, status) == ~o.settled /\ status # "ok"
PromiseAllFulfils(o, i, status) == ~o.settled /\ status = "ok" /\ o.pending = {i}

\* An invocation leaves `ops` when its handler has settled and none of its
\* transport calls is in flight.
Keep(o) == IF o.settled /\ o.pending = {} THEN {} ELSE {o}

\* -------------------------------------------------------- handleBulkDelete
\* Lines 773-804; Promise.all of no call fulfils at once (lines 827-848).
BulkDeleteInvoke ==
  \E ids \in IdLists :
    LET o == [NewOp("bulkDelete") EXCEPT
                !.ids = ids,
                !.originalData = invoiceListData,
                !.originalInvoices = originalInvoicesOf(invoices, ids),
                !.willPageBeIncomplete =
                   willPageBeIncomplete(invoiceListData) /\ Len(ids) > 0,
                !.pending = DOMAIN ids,
                !.settled = (ids = <<>>)]
    IN /\ CanInvoke
       /\ invoices' = RemoveAll(invoices, ids)
       /\ invoiceListData' = RemoveFromListData(invoiceListData, ListSet(ids), Len(ids))
       /\ ops' = ops \cup Keep(o)
       /\ started' = started + 1
       /\ bulks < MaxBulk
       /\ bulks' = bulks + 1
       /\ UNCHANGED <<policy, company, quoteForm>>
       /\ last' = IF ids = <<>> THEN ToastSuccess(ToastLoading(Event("commit", o, "ok", "resolved")))
                  ELSE ToastLoading(Event("invoke", o, "none", "pending"))
       /\ UNCHANGED <<token, authStored>>

\* One DELETE call of the batch answers: lines 808-825, and the handler's
\* continuation when that answer settles Promise.all (lines 827-856).
BulkDeleteCall ==
  \E o \in ops, i \in 1..MaxBatch, status \in Statuses :
    /\ o.kind = "bulkDelete" /\ o.pc = "call" /\ i \in o.pending
    /\ IF status = "401" THEN ClearSession ELSE UNCHANGED <<token, authStored>>
    /\ LET rest == [o EXCEPT !.pending = o.pending \ {i}]
           done == [rest EXCEPT !.settled = TRUE]
       IN IF PromiseAllRejects(o, status)
          THEN /\ invoices' = AddAll(invoices, o.originalInvoices)
               /\ invoiceListData' = o.originalData
               /\ ops' = (ops \ {o}) \cup Keep(done)
               /\ last' = ToastError(Event("rollback", done, status, "resolved"))
          ELSE IF PromiseAllFulfils(o, i, status)
          THEN SuccessPath(o, status)
          ELSE /\ ops' = (ops \ {o}) \cup Keep(rest)
               /\ last' = Event(IF o.settled THEN "late" ELSE "answer", rest, status,
                                IF o.settled THEN "resolved" ELSE "pending")
               /\ UNCHANGED <<invoices, invoiceListData>>
    /\ UNCHANGED <<started, bulks, policy, company, quoteForm>>

\* -------------------------------------------------------- handleBulkSubmit
\* Lines 860-867; Promise.all of no call fulfils at once (lines 910-917).
BulkSubmitInvoke ==
  \E ids \in IdLists :
    LET o == [NewOp("bulkSubmit") EXCEPT
                !.ids = ids,
                !.originalInvoices = originalInvoicesOf(invoices, ids),
                !.pending = DOMAIN ids,
                !.results = [k \in DOMAIN ids |-> 0],
                !.settled = (ids = <<>>)]
    IN /\ CanInvoke
       /\ invoices' = SubmitAll(invoices, ids)
       /\ invoiceListData' = SubmitAllOnList(invoiceListData, ids)
       /\ ops' = ops \cup Keep(o)
       /\ started' = started + 1
       /\ bulks < MaxBulk
       /\ bulks' = bulks + 1
       /\ UNCHANGED <<policy, company, quoteForm>>
       /\ last' = IF ids = <<>> THEN ToastSuccess(ToastLoading(Event("commit", o, "ok", "resolved")))
                  ELSE ToastLoading(Event("invoke", o, "none", "pending"))
       /\ UNCHANGED <<token, authStored>>

\* One SUBMIT call of the batch answers: lines 871-907, and the handler's
\* continuation when that answer settles Promise.all (lines 910-924).
BulkSubmitCall ==
  \E o \in ops, i \in 1..MaxBatch, status \in Statuses, dgiSubmissionId \in DgiIds :
    /\ o.kind = "bulkSubmit" /\ i \in o.pending
    /\ status # "ok" => dgiSubmissionId = 0
    /\ IF status = "401" THEN ClearSession ELSE UNCHANGED <<token, authStored>>
    /\ LET rest == [o EXCEPT !.pending = o.pending \ {i},
                             !.results[i] = dgiSubmissionId]
           done == [rest EXCEPT !.settled = TRUE]
       IN IF PromiseAllRejects(o, status)
          THEN /\ invoices' = UpdateAll(invoices, o.originalInvoices)
               /\ ops' = (ops \ {o}) \cup Keep(done)
               /\ last' = ToastError(Event("rollback", done, status, "resolved"))
               /\ UNCHANGED invoiceListData
          ELSE IF PromiseAllFulfils(o, i, status)
          THEN /\ invoices' = ApplyResults(invoices, o.ids, rest.results)
               /\ invoiceListData' = ApplyResultsOnList(invoiceListData, o.ids, rest.results)
               /\ ops' = (ops \ {o}) \cup Keep(done)
               /\ last' = ToastSuccess(WithResults(Event("commit", done, status, "resolved"),
                                                   rest.results))
          ELSE /\ ops' = (ops \ {o}) \cup Keep(rest)
               /\ last' = Event(IF o.settled THEN "late" ELSE "answer", rest, status,
                                IF o.settled THEN "resolved" ELSE "pending")
               /\ UNCHANGED <<invoices, invoiceListData>>
    /\ UNCHANGED <<started, bulks, policy, company, quoteForm>>

\* ------------------------------------------------- invoice.permissions.ts
\* The values a role may have at run time: the three of UserRole, and values
\* outside it (another string; "undefined" for a token that carries no role).
UserRoles == {"Admin", "Manager", "Clerk", "Viewer", "undefined"}

\* InvoiceStatus, and one number outside it.
InvoiceStatuses == 0..MaxStatus

\* Array.prototype.includes
Includes(array, x) == \E i \in DOMAIN array : array[i] = x

canCreateInvoice(role) == Includes(<<"Admin", "Manager", "Clerk">>, role)

\* A faulty canModifyInvoice: a Clerk may modify nothing.
canModifyInvoiceManagersOnly(role, status) ==
  role \in {"Manager", "Admin"} /\ (status = DRAFT \/ status = READY \/ status = REJECTED)

canModifyInvoice(role, status) ==
  CASE role = "Clerk" -> status = DRAFT
    [] role \in {"Manager", "Admin"} ->
         status = DRAFT \/ status = READY \/ status = REJECTED
    [] OTHER -> FALSE

canDeleteInvoice(role, status) == canModifyInvoice(role, status)

canChangeInvoiceStatus(role, status) ==
  CASE role = "Clerk" -> FALSE
    [] role \in {"Manager", "Admin"} ->
         status = DRAFT \/ status = READY \/ status = REJECTED
    [] OTHER -> FALSE

\* A faulty canSubmitInvoice: a Clerk may submit too.
canSubmitInvoiceClerkToo(role, status) ==
  (role = "Manager" \/ role = "Admin" \/ role = "Clerk") /\ status = READY

canSubmitInvoice(role, status) ==
  (role = "Manager" \/ role = "Admin") /\ status = READY

canPerformDGIStatusCheck(role, status) ==
  (role = "Manager" \/ role = "Admin") /\ status = AWAITING_CLEARANCE

canAccessRejectionReason(role, status) == status = REJECTED

\* A faulty getValidStatusTransitions: a Draft leaves its own status out.
getValidStatusTransitionsTargetsOnly(role, currentStatus) ==
  IF role # "Clerk" /\ currentStatus = DRAFT THEN <<READY>> ELSE <<currentStatus>>

\* A faulty getValidStatusTransitions: the role is not looked at.
getValidStatusTransitionsAnyRole(role, currentStatus) ==
  IF currentStatus \in {DRAFT, READY} THEN <<DRAFT, READY>> ELSE <<currentStatus>>

getValidStatusTransitions(role, currentStatus) ==
  IF role = "Clerk" THEN <<currentStatus>>
  ELSE CASE currentStatus = DRAFT -> <<DRAFT, READY>>
         [] currentStatus = READY -> <<DRAFT, READY>>
         [] currentStatus = AWAITING_CLEARANCE -> <<AWAITING_CLEARANCE>>
         [] currentStatus = VALIDATED -> <<VALIDATED>>
         [] currentStatus = REJECTED -> <<DRAFT, REJECTED>>
         [] OTHER -> <<currentStatus>>

canTransitionToStatus(role, currentStatus, target) ==
  LET validTransitions == getValidStatusTransitions(role, currentStatus)
  IN Includes(validTransitions, target)

\* The operations canSelectForBulkOperation may be asked about: the two of its
\* parameter's type, and a value outside it.
BulkOperations == {"delete", "submit", "export"}

canSelectForBulkOperation(role, status, operation) ==
  IF operation = "delete" THEN canDeleteInvoice(role, status)
  ELSE IF operation = "submit" THEN canSubmitInvoice(role, status)
  ELSE FALSE

getInvoiceActionPermissions(role, status) ==
  [canEdit |-> canModifyInvoice(role, status),
   canDelete |-> canDeleteInvoice(role, status),
   canSubmit |-> canSubmitInvoice(role, status),
   canChangeStatus |-> canChangeInvoiceStatus(role, status),
   canCheckDGIStatus |-> canPerformDGIStatusCheck(role, status),
   canViewRejectionReason |-> canAccessRejectionReason(role, status),
   validStatusTransitions |-> getValidStatusTransitions(role, status)]

\* No permission function has been called.
NoAnswer ==
  [asked |-> FALSE, canCreateInvoice |-> FALSE, canTransitionToStatus |-> FALSE,
   canSelectForBulkOperation |-> [operation \in BulkOperations |-> FALSE],
   permissions |-> getInvoiceActionPermissions("undefined", MaxStatus)]

PolicyIdle ==
  /\ userRole = "undefined"
  /\ invoiceStatus = DRAFT
  /\ targetStatus = DRAFT
  /\ answer = NoAnswer

\* The permission functions are called for the role, the invoice's status and
\* a target status.
AskPolicy ==
  \E target \in InvoiceStatuses :
    /\ targetStatus' = target
    /\ answer' = [asked |-> TRUE,
                  canCreateInvoice |-> canCreateInvoice(userRole),
                  canTransitionToStatus |->
                     canTransitionToStatus(userRole, invoiceStatus, target),
                  canSelectForBulkOperation |->
                     [operation \in BulkOperations |->
                        canSelectForBulkOperation(userRole, invoiceStatus, operation)],
                  permissions |-> getInvoiceActionPermissions(userRole, invoiceStatus)]
    /\ UNCHANGED <<userRole, invoiceStatus, cache, company, quoteForm>>

\* The invoice takes a status canTransitionToStatus permits.
ChangeStatus ==
  \E target \in InvoiceStatuses :
    /\ canTransitionToStatus(userRole, invoiceStatus, target)
    /\ target # invoiceStatus
    /\ invoiceStatus' = target
    /\ targetStatus' = target
    /\ answer' = NoAnswer
    /\ UNCHANGED <<userRole, cache, company, quoteForm>>

\* ------------------------------------------------------------ token events
\* event.detail?.token of a 'tokenRefreshed' event: NoToken where the event
\* carries none.
EventTokens == {NoToken, StoredToken, RefreshedToken}

\* A faulty handleTokenRefresh: an event without a token clears the token.
handleTokenRefreshClearing(current, newToken) == newToken

\* Lines 68-74: if (newToken) setToken(newToken).
handleTokenRefresh(current, newToken) ==
  IF newToken # NoToken THEN newToken ELSE current

\* Lines 68-74, and the effect of lines 293-298, which calls fetchInvoices
\* after a render in which the token has changed to a token.
TokenRefreshed ==
  \E newToken \in EventTokens :
    /\ token' = handleTokenRefresh(token, newToken)
    /\ IF token' # token
       THEN /\ started < MaxOps
            /\ ops' = ops \cup {NewOp("fetch")}
            /\ started' = started + 1
       ELSE UNCHANGED <<ops, started>>
    /\ last' = IF newToken # NoToken
               THEN ToastSuccess(Event("tokenRefreshed", NoOp, newToken, "none"))
               ELSE Event("tokenRefreshed", NoOp, newToken, "none")
    /\ UNCHANGED <<invoices, invoiceListData, authStored, bulks, policy, company, quoteForm>>

\* Lines 77-82: setToken(null); setCompany(null); the calls in flight go on.
TokenRefreshFailed ==
  /\ token' = NoToken
  /\ company' = NoCompany
  /\ last' = ToastError(Event("tokenRefreshFailed", NoOp, "none", "none"))
  /\ UNCHANGED <<invoices, invoiceListData, authStored, ops, started, bulks, policy,
                 quoteForm>>

\* --------------------------------------------------------------- QuoteForm
\* The members of QUOTE_STATUS that validateForm accepts (line 92), and a
\* status outside them.
QuoteStatuses == {"DRAFT", "SENT", "ACCEPTED", "REJECTED", "CONVERTED"}

QuoteStatusValues == QuoteStatuses \cup {"OTHER"}

\* Line 53: the line a new form starts with.
DefaultLine == [description |-> "", quantity |-> 1, unitPrice |-> 0, taxRate |-> 20]

\* The lines a form may hold: the default line, a complete line, a line with a
\* blank description, and a line for each numeric check of validateForm.
LineValues ==
  {DefaultLine,
   [DefaultLine EXCEPT !.description = "item"],
   [DefaultLine EXCEPT !.description = " "],
   [DefaultLine EXCEPT !.description = "item", !.quantity = 0],
   [DefaultLine EXCEPT !.description = "item", !.unitPrice = -1],
   [DefaultLine EXCEPT !.description = "item", !.taxRate = 101]}

LineLists == UNION {[1..k -> LineValues] : k \in 1..MaxLines}

\* String.prototype.trim on the descriptions above.
Trim(description) == IF description = " " THEN "" ELSE description

\* Lines 96-101: the fields of a line that fail their check.
LineError(line) ==
  {f \in {"description", "quantity", "unitPrice", "taxRate"} :
     \/ f = "description" /\ (line.description = "" \/ Trim(line.description) = "")
     \/ f = "quantity" /\ line.quantity <= 0
     \/ f = "unitPrice" /\ line.unitPrice < 0
     \/ f = "taxRate" /\ (line.taxRate < 0 \/ line.taxRate > 100)}

\* Lines 93-104: newErrors.lines as a set of (index, field) pairs, indices
\* from 0 as in the source; the empty set where the key is not set.
LineErrors(formLines) ==
  LET hasValidLine == \E i \in DOMAIN formLines : LineError(formLines[i]) = {}
  IN IF ~hasValidLine THEN {<<0, "description">>}
     ELSE {<<i - 1, f>> : <<i, f>> \in
             {x \in (DOMAIN formLines) \X {"description", "quantity", "unitPrice", "taxRate"} :
                x[2] \in LineError(formLines[x[1]])}}

\* useState<FormErrors>({}): no key set.
NoErrors == [issueDate |-> FALSE, customerId |-> FALSE, status |-> FALSE, lines |-> {}]

\* Lines 88-105: newErrors.
NewErrors(date, customer, formStatus, formLines) ==
  [issueDate |-> date = "",
   customerId |-> customer = 0,
   status |-> formStatus \notin QuoteStatuses,
   lines |-> LineErrors(formLines)]

\* Line 106: Object.keys(newErrors).length === 0.
validateForm(date, customer, formStatus, formLines) ==
  NewErrors(date, customer, formStatus, formLines) = NoErrors

\* The keys of a BackendErrorResponse.
BackendKeys == {"CustomerId", "IssueDate"}

\* What onSubmit may reject with: an object with `errors`, with `title`, with
\* `message`, or with none of them.
Rejections ==
  {[kind |-> "errors", errors |-> keys] : keys \in SUBSET BackendKeys}
    \cup {[kind |-> k, errors |-> {}] : k \in {"title", "message", "other"}}

\* What the form's step did: ev is "submit" (onSubmit was called), "ignored",
\* "invalid", "settle" (onSubmit settled, with outcome "resolved" or
\* "rejected"), "edit" or "cancel"; toast lists the notifications shown.
FormEvent(ev, outcome, toast) == [ev |-> ev, outcome |-> outcome, toast |-> toast]

\* A faulty guard: only the `disabled` prop is tested.
SubmitBlockedDisabledOnly(disabledProp, submitting) == disabledProp

\* Line 215: disabled || isSubmitting.
SubmitBlocked(disabledProp, submitting) == disabledProp \/ submitting

\* Lines 213-247: handleSubmit up to the awaited onSubmit.  The handler reads
\* the state of the last render, and React renders the updates of an event
\* before it dispatches the next one.
HandleSubmit ==
  /\ IF SubmitBlocked(disabled, isSubmitting)
     THEN /\ formLast' = FormEvent("ignored", "none", <<>>)
          /\ UNCHANGED <<errors, isSubmitting, backendErrors, pendingSubmits, onSubmitCalls>>
     ELSE IF ~validateForm(issueDate, customerId, quoteStatus, lines)
     THEN /\ errors' = NewErrors(issueDate, customerId, quoteStatus, lines)
          /\ formLast' = FormEvent("invalid", "none", <<"error">>)
          /\ UNCHANGED <<isSubmitting, backendErrors, pendingSubmits, onSubmitCalls>>
     ELSE /\ onSubmitCalls < MaxSubmits
          /\ errors' = NewErrors(issueDate, customerId, quoteStatus, lines)
          /\ isSubmitting' = TRUE
          /\ backendErrors' = {}
          /\ pendingSubmits' = pendingSubmits + 1
          /\ onSubmitCalls' = onSubmitCalls + 1
          /\ formLast' = FormEvent("submit", "none", <<>>)
  /\ UNCHANGED <<issueDate, customerId, quoteStatus, lines, disabled, onCloseCalls>>
  /\ UNCHANGED <<cache, policy, company>>

\* Lines 248-263: onSubmit resolves and onClose is called, or it rejects and
\* the catch block shows the error; the finally block ends the submission.
SubmitSettles ==
  /\ pendingSubmits > 0
  /\ pendingSubmits' = pendingSubmits - 1
  /\ \/ /\ onCloseCalls' = onCloseCalls + 1
        /\ formLast' = FormEvent("settle", "resolved", <<>>)
        /\ UNCHANGED backendErrors
     \/ \E error \in Rejections :
          /\ backendErrors' = IF error.kind = "errors" THEN error.errors ELSE backendErrors
          /\ formLast' = FormEvent("settle", "rejected", <<"error">>)
          /\ UNCHANGED onCloseCalls
  /\ isSubmitting' = FALSE
  /\ UNCHANGED <<issueDate, customerId, quoteStatus, lines, disabled, errors, onSubmitCalls>>
  /\ UNCHANGED <<cache, policy, company>>

\* Lines 352-356: the customer select, enabled while the form is neither
\* disabled nor submitting.
SetCustomerId ==
  \E customer \in {0, 1} :
    /\ ~(disabled \/ isSubmitting)
    /\ customerId' = customer
    /\ errors' = [errors EXCEPT !.customerId = FALSE]
    /\ backendErrors' = backendErrors \ {"CustomerId"}
    /\ formLast' = FormEvent("edit", "none", <<>>)
    /\ UNCHANGED <<issueDate, quoteStatus, lines, disabled, isSubmitting, pendingSubmits,
                   onSubmitCalls, onCloseCalls>>
    /\ UNCHANGED <<cache, policy, company>>

\* Lines 290-293 and 651-654: the close and cancel buttons, enabled while no
\* submission is in flight, call onClose.
Cancel ==
  /\ ~isSubmitting
  /\ onCloseCalls < MaxCancels
  /\ onCloseCalls' = onCloseCalls + 1
  /\ formLast' = FormEvent("cancel", "none", <<>>)
  /\ UNCHANGED <<issueDate, customerId, quoteStatus, lines, disabled, errors, isSubmitting,
                 backendErrors, pendingSubmits, onSubmitCalls>>
  /\ UNCHANGED <<cache, policy, company>>

\* The form of a new quote, as the useState initialisers leave it.
FormFresh ==
  /\ errors = NoErrors
  /\ isSubmitting = FALSE
  /\ backendErrors = {}
  /\ pendingSubmits = 0
  /\ onSubmitCalls = 0
  /\ onCloseCalls = 0
  /\ formLast = FormEvent("init", "none", <<>>)

FormIdle ==
  /\ issueDate = "date"
  /\ customerId = 0
  /\ quoteStatus = "DRAFT"
  /\ lines = <<DefaultLine>>
  /\ disabled = FALSE
  /\ FormFresh

\* ------------------------------------------------------------ specification
\* After construction with a stored token the mount effect (lines 293-298)
\* has called fetchInvoices.
Init ==
  /\ invoices = <<>>
  /\ invoiceListData = NullData
  /\ token = StoredToken
  /\ authStored = TRUE
  /\ started = 0
  /\ bulks = 0
  /\ ops = {MountFetch}
  /\ last = Event("init", NoOp, "none", "pending")
  /\ company = StoredCompany
  /\ PolicyIdle
  /\ FormIdle

Next ==
  \/ FetchInvoices
  \/ FetchResponse
  \/ DeleteNotFound
  \/ DeleteInvoke
  \/ DeleteResponse
  \/ RepairResponse
  \/ CreateInvoke
  \/ CreateResponse
  \/ UpdateNotFound
  \/ UpdateInvoke
  \/ UpdateResponse
  \/ SubmitNotFound
  \/ SubmitInvoke
  \/ SubmitResponse
  \/ BulkDeleteInvoke
  \/ BulkDeleteCall
  \/ BulkSubmitInvoke
  \/ BulkSubmitCall

Spec == Init /\ [][Next]_vars

\* The session: the token events and the list fetches they start.
SessionNext ==
  \/ TokenRefreshed
  \/ TokenRefreshFailed
  \/ FetchInvoices
  \/ FetchResponse

SpecSession == Init /\ [][SessionNext]_vars

\* The quote form alone: a new quote or the quote of the `quote` prop, with or
\* without the `disabled` prop.
FormInit ==
  /\ invoices = <<>>
  /\ invoiceListData = NullData
  /\ token = StoredToken
  /\ authStored = TRUE
  /\ started = 0
  /\ bulks = 0
  /\ ops = {MountFetch}
  /\ last = Event("init", NoOp, "none", "pending")
  /\ company = StoredCompany
  /\ PolicyIdle
  /\ issueDate \in {"", "date"}
  /\ customerId \in {0, 1}
  /\ quoteStatus \in QuoteStatusValues
  /\ lines \in LineLists
  /\ disabled \in BOOLEAN
  /\ FormFresh

FormNext ==
  \/ HandleSubmit
  \/ SubmitSettles
  \/ SetCustomerId
  \/ Cancel

SpecForm == FormInit /\ [][FormNext]_vars

\* The permission utilities alone: any role, an invoice of any status, the
\* cache as it is after construction.
PolicyInit ==
  /\ invoices = <<>>
  /\ invoiceListData = NullData
  /\ token = StoredToken
  /\ authStored = TRUE
  /\ started = 0
  /\ bulks = 0
  /\ ops = {MountFetch}
  /\ last = Event("init", NoOp, "none", "pending")
  /\ company = StoredCompany
  /\ FormIdle
  /\ userRole \in UserRoles
  /\ invoiceStatus \in InvoiceStatuses
  /\ targetStatus = invoiceStatus
  /\ answer = NoAnswer

PolicyNext ==
  \/ AskPolicy
  \/ ChangeStatus

SpecPolicy == PolicyInit /\ [][PolicyNext]_vars

\* ================================================================ properties
\* The invocation ran alone: nothing else was in flight when it was invoked,
\* nothing was invoked since, nothing else is in flight.
RanAlone(o) == o.alone /\ ops = {o} /\ started = o.n

\* The step just taken is event `ev` of invocation o.
Step(o, ev) == last'.n = o.n /\ last'.kind = o.kind /\ last'.ev = ev

\* The DELETE call (every DELETE call of the batch) was answered 2xx.
DeleteSucceeds(o) ==
  /\ o.kind \in {"delete", "bulkDelete"} /\ o.pc = "call"
  /\ (Step(o, "commit") \/ Step(o, "repair"))

FullWithMorePages(data) ==
  /\ ~data.isNull
  /\ Len(data.invoices) = data.pagination.pageSize
  /\ data.pagination.page < data.pagination.totalPages

ShortWithMorePages(data) ==
  /\ ~data.isNull
  /\ Len(data.invoices) < data.pagination.pageSize
  /\ data.pagination.page < data.pagination.totalPages

\* C1: when a call of handleBulkDelete(ids) fails, the settled cache (the
\* `invoices` list and invoiceListData) equals the cache before the batch.
\* Stated for a batch that ran alone.
C1_BulkDeleteRestoresSnapshot ==
  [][\A o \in ops :
       (o.kind = "bulkDelete" /\ Step(o, "rollback") /\ RanAlone(o))
         => /\ invoices' = o.before.invoices
            /\ invoiceListData' = o.before.data]_vars

\* C2: no bulk handler has decided its outcome (rolled back or run its success
\* path) while a transport call of its batch is still in flight.
C2_JoinAllBarrier == \A o \in ops : o.settled => o.pending = {}

\* C3: when the POST of handleCreateInvoice fails and nothing else ran
\* meanwhile, the cache is exactly what it was before the create.
C3_CreateRollbackRestores ==
  [][\A o \in ops :
       (o.kind = "create" /\ Step(o, "rollback") /\ RanAlone(o))
         => /\ invoices' = o.before.invoices
            /\ invoiceListData' = o.before.data]_vars

\* C4: when the PUT of handleUpdateInvoice is answered 401, every cached record
\* with that id equals the snapshot taken before the optimistic update, the
\* page is left as it is, and the session is cleared.
C4_UpdateUnauthorizedRestores ==
  [][\A o \in ops :
       (o.kind = "update" /\ Step(o, "rollback") /\ last'.status = "401")
         => /\ token' = NoToken /\ authStored' = FALSE
            /\ \A i \in DOMAIN invoices' :
                 invoices'[i].id = o.id => invoices'[i] = Find(o.before.invoices, o.id)
            /\ IdSet(invoices') = IdSet(invoices)
            /\ invoiceListData' = invoiceListData]_vars

C4_Witness ==
  /\ last.kind = "update" /\ last.ev = "rollback" /\ last.status = "401"
  /\ token = NoToken /\ ~authStored
  /\ \E i \in DOMAIN invoices : invoices[i].data = "listed"

\* C5: when the DELETE of handleDeleteInvoice is answered 401 or another
\* non-2xx status, invoiceListData is the page as it was before the delete
\* (records, totalItems, totalPages) and the record is in `invoices` again.
C5_DeleteRollbackRestoresPage ==
  [][\A o \in ops :
       (o.kind = "delete" /\ Step(o, "rollback"))
         => /\ invoiceListData' = o.before.data
            /\ Find(o.before.invoices, o.id) \in SeqSet(invoices')]_vars

C5_Witness ==
  /\ last.kind = "delete" /\ last.ev = "rollback"
  /\ ~invoiceListData.isNull /\ invoiceListData.invoices # <<>>
  /\ invoices # <<>>

\* C6: when the SUBMIT call of handleSubmitInvoice fails, the record has its
\* status, submission id and rejection reason of before the change in both
\* views.  Stated for a submit that ran alone, record by record.
C6_SubmitRollbackBothViews ==
  [][\A o \in ops :
       (o.kind = "submit" /\ Step(o, "rollback") /\ RanAlone(o))
         => /\ invoices' = o.before.invoices
            /\ invoiceListData'.invoices = o.before.data.invoices]_vars

\* C7: when a call of handleBulkSubmit(ids) fails, every record of the batch
\* has its status of before the batch in both views.  Stated for a batch that
\* ran alone, record by record.
C7_BulkSubmitRollbackBothViews ==
  [][\A o \in ops :
       (o.kind = "bulkSubmit" /\ Step(o, "rollback") /\ RanAlone(o))
         => /\ \A i \in DOMAIN invoices' :
                 invoices'[i].status = o.before.invoices[i].status
            /\ \A i \in DOMAIN invoiceListData'.invoices :
                 invoiceListData'.invoices[i].status = o.before.data.invoices[i].status]_vars

\* C8: whenever a page is cached, totalPages = ceil(totalItems / pageSize).
C8_PaginationConsistent ==
  ~invoiceListData.isNull =>
     invoiceListData.pagination.totalPages =
       Ceil(invoiceListData.pagination.totalItems, invoiceListData.pagination.pageSize)

C8_Witness ==
  /\ last.kind = "bulkDelete" /\ last.ev = "invoke"
  /\ \E o \in ops :
       /\ o.n = last.n /\ ~o.before.data.isNull
       /\ invoiceListData.pagination.totalPages < o.before.data.pagination.totalPages

\* C9: when a delete (or a bulk delete of a non-empty id list) succeeds and the
\* page was full with more pages behind it before the deletion, a LIST request
\* for the page and pageSize of before the deletion is issued; and a 2xx
\* answer to it becomes invoiceListData.
C9_FullPageRepair ==
  [][/\ \A o \in ops :
          (/\ DeleteSucceeds(o)
           /\ FullWithMorePages(o.before.data)
           /\ o.kind = "bulkDelete" => o.ids # <<>>)
            => \E r \in ops' :
                 /\ r.n = o.n /\ r.pc = "repair"
                 /\ r.listRequest = [page |-> o.before.data.pagination.page,
                                     pageSize |-> o.before.data.pagination.pageSize]
     /\ \A o \in ops :
          (o.pc = "repair" /\ Step(o, "repaired") /\ last'.status = "ok")
            => /\ invoiceListData' \in ServerPages
               /\ invoiceListData'.pagination.page = o.listRequest.page
               /\ invoiceListData'.pagination.pageSize = o.listRequest.pageSize]_vars

\* The spec's example, scaled to pageSize 2: {totalItems 4, page 1} and one
\* delete give totalItems 3, totalPages 2 and a refetch of page 1.
C9_Witness ==
  /\ last.kind = "delete" /\ last.ev = "repair"
  /\ ~invoiceListData.isNull
  /\ invoiceListData.pagination.totalItems = 3
  /\ invoiceListData.pagination.totalPages = 2
  /\ \E r \in ops : r.n = last.n /\ r.pc = "repair" /\ r.listRequest.page = 1
                    /\ r.before.data.pagination.totalItems = 4

\* C10: after any successful delete or bulk delete that leaves the page with
\* fewer than pageSize records while more pages exist, the page is re-fetched.
\* Stated for a delete that ran alone.
C10_RepairWheneverShort ==
  [][\A o \in ops :
       (DeleteSucceeds(o) /\ RanAlone(o) /\ ShortWithMorePages(invoiceListData'))
         => Step(o, "repair")]_vars

\* ------------------------------------------------------- permission claims
KnownRoles == {"Admin", "Manager", "Clerk"}

Elements(array) == {array[i] : i \in DOMAIN array}

\* C11: for a role other than Admin, Manager and Clerk, whatever the status s
\* of the invoice, getValidStatusTransitions holds no status but s and
\* canTransitionToStatus is false for every target other than s.
C11_UnknownRoleNoTransition ==
  (answer.asked /\ userRole \notin KnownRoles) =>
     /\ Elements(answer.permissions.validStatusTransitions) \subseteq {invoiceStatus}
     /\ targetStatus # invoiceStatus => ~answer.canTransitionToStatus

\* C12: for a role other than Admin, Manager and Clerk, whatever the status of
\* the invoice, getInvoiceActionPermissions has canEdit, canDelete, canSubmit,
\* canChangeStatus, canCheckDGIStatus and canViewRejectionReason false, and
\* canCreateInvoice is false.
C12_UnknownRoleNoCapability ==
  (answer.asked /\ userRole \notin KnownRoles) =>
     /\ ~answer.permissions.canEdit
     /\ ~answer.permissions.canDelete
     /\ ~answer.permissions.canSubmit
     /\ ~answer.permissions.canChangeStatus
     /\ ~answer.permissions.canCheckDGIStatus
     /\ ~answer.permissions.canViewRejectionReason
     /\ ~answer.canCreateInvoice

\* C14: for every role and status s, getValidStatusTransitions contains s, and
\* canTransitionToStatus(role, s, t) is true exactly when t is one of them.
C14_TransitionsContainCurrent ==
  answer.asked =>
     /\ Includes(answer.permissions.validStatusTransitions, invoiceStatus)
     /\ answer.canTransitionToStatus
          <=> targetStatus \in Elements(answer.permissions.validStatusTransitions)

C14_Witness ==
  /\ answer.asked /\ userRole = "Manager"
  /\ invoiceStatus = DRAFT /\ targetStatus = READY
  /\ answer.canTransitionToStatus
  /\ Len(answer.permissions.validStatusTransitions) = 2

\* C15: for a Clerk the transitions of a status s are {s}; for a Manager and
\* an Admin the transitions of a Draft are exactly {Draft, Ready}.
C15_ClerkHasNoTransition ==
  answer.asked =>
     /\ userRole = "Clerk" =>
          Elements(answer.permissions.validStatusTransitions) = {invoiceStatus}
     /\ (userRole \in {"Manager", "Admin"} /\ invoiceStatus = DRAFT) =>
          Elements(answer.permissions.validStatusTransitions) = {DRAFT, READY}

C15_Witness ==
  /\ answer.asked /\ userRole = "Clerk"
  /\ invoiceStatus = DRAFT /\ targetStatus = READY
  /\ ~answer.canTransitionToStatus
  /\ answer.permissions.canEdit

\* C16: for every role AwaitingClearance and Validated permit no target but
\* themselves and are never left by a permitted transition; the only permitted
\* transition out of a status the system sets (AwaitingClearance, Validated,
\* Rejected) is Rejected -> Draft, and it is a Manager's or an Admin's.
C16_TerminalStatuses ==
  [][/\ (/\ answer'.asked
          /\ invoiceStatus' \in {AWAITING_CLEARANCE, VALIDATED}
          /\ targetStatus' # invoiceStatus') => ~answer'.canTransitionToStatus
     /\ invoiceStatus \in {AWAITING_CLEARANCE, VALIDATED} => invoiceStatus' = invoiceStatus
     /\ (/\ invoiceStatus \in {AWAITING_CLEARANCE, VALIDATED, REJECTED}
         /\ invoiceStatus' # invoiceStatus)
           => /\ invoiceStatus = REJECTED /\ invoiceStatus' = DRAFT
              /\ userRole \in {"Manager", "Admin"}]_vars

\* ---------------------------------------------------------- engine claims
\* C13: the optimistic status change of handleSubmitInvoice and
\* handleBulkSubmit takes a cached record from its status s to a target t that
\* canTransitionToStatus permits for the user's role.  No handler reads the
\* role, so the property is stated for the most favourable one: some role the
\* user may have permits each change.
C13_StatusChangesPermitted ==
  [][(last'.ev = "invoke" /\ last'.kind \in {"submit", "bulkSubmit"}) =>
       \A i \in DOMAIN invoices :
         invoices'[i].status # invoices[i].status =>
           \E role \in UserRoles :
             canTransitionToStatus(role, invoices[i].status, invoices'[i].status)]_vars

\* C17: whenever a transport call is answered 401 (the list fetch, a create,
\* update, delete or submit call, a call of a bulk batch, the page-repair
\* refetch), the token is null and the stored auth data is cleared.
C17_UnauthorizedClearsSession ==
  [][last'.status = "401" => (token' = NoToken /\ authStored' = FALSE)]_vars

\* C18: once the promise a mutation handler returned has settled, no step
\* taken for that invocation changes `invoices`, invoiceListData or the
\* session.
C18_SettleAfterApply ==
  [][\A o \in ops :
       (o.settled /\ last'.n = o.n /\ last'.kind = o.kind)
         => UNCHANGED <<invoices, invoiceListData, token, authStored>>]_vars

\* ------------------------------------------------------------------ toasts
ToastedKinds == {"delete", "submit", "bulkDelete", "bulkSubmit"}

\* The number of success and error toasts a step showed.
TerminalToasts(e) == Cardinality({i \in DOMAIN e.toast : e.toast[i] # "loading"})

\* C19: an invocation of handleDeleteInvoice, handleSubmitInvoice,
\* handleBulkDelete or handleBulkSubmit shows its loading toast when it starts
\* and exactly one success or error toast, in the step that settles its
\* promise; no other step taken for it (an answer the batch still waits on,
\* the request of the page repair, an answer that arrives after the handler
\* returned) shows a success or an error toast, however many calls failed.
C19_OneTerminalNotification ==
  [][(last'.kind \in ToastedKinds) =>
       /\ TerminalToasts(last') =
            IF last'.ev # "late" /\ last'.promise # "pending" THEN 1 ELSE 0
       /\ last'.ev = "invoke" => last'.toast = <<"loading">>]_vars

\* A second call of a batch has failed after the handler showed its error
\* toast, and nothing was shown for it.
C19_Witness ==
  /\ last.kind \in {"bulkDelete", "bulkSubmit"}
  /\ last.ev = "late"
  /\ last.status = "fail"
  /\ last.toast = <<>>

\* ------------------------------------------------------------------ retries
MutatingKinds == {"create", "update", "delete", "submit", "bulkDelete", "bulkSubmit"}

\* The mutating calls of an invocation that are in flight.
CallsInFlight(o) ==
  IF o.kind \in {"bulkDelete", "bulkSubmit"} THEN Cardinality(o.pending)
  ELSE IF o.pc = "call" THEN 1 ELSE 0

\* C20: an invocation of create, update, delete or submit starts with one
\* mutating call in flight and a bulk invocation with one per listed id; every
\* later step taken for the invocation is the answer to one of these calls and
\* leaves one fewer in flight, whatever the answer, and no step taken for
\* another invocation changes the number: no call is issued again.
C20_NoAutomaticRetry ==
  [][\A r \in ops' :
       (r.kind \in MutatingKinds) =>
         IF \E o \in ops : o.n = r.n
         THEN \A o \in ops :
                o.n = r.n =>
                  CallsInFlight(r) =
                    CallsInFlight(o) - (IF last'.n = r.n THEN 1 ELSE 0)
         ELSE CallsInFlight(r) =
                IF r.kind \in {"bulkDelete", "bulkSubmit"} THEN Len(r.ids) ELSE 1]_vars

\* A call of a batch of two has failed and the handler has rolled back: the
\* other call is still the only one in flight.
C20_Witness ==
  /\ last.kind \in {"bulkDelete", "bulkSubmit"}
  /\ last.ev = "rollback"
  /\ last.status = "fail"
  /\ \E o \in ops : o.n = last.n /\ Len(o.ids) = 2 /\ CallsInFlight(o) = 1

\* ---------------------------------------------------------- identity claims
\* A record the server delivered (by the LIST endpoint or in the answer to a
\* create or an update), as opposed to a temporary or an edited one.
ServerHydrated(inv) == inv.data \in {"listed", "server"}

\* C21: the temporary id handleCreateInvoice draws is the id of no cached
\* record, and the removal of the temporary id when the create is promoted or
\* rolled back removes no record the server delivered.
C21_TemporaryIdDisjoint ==
  [][/\ (last'.kind = "create" /\ last'.ev = "invoke") =>
          \A r \in ops' : r.n = last'.n => r.tempInvoice.id \notin IdSet(invoices)
     /\ \A o \in ops :
          (o.kind = "create" /\ last'.n = o.n /\ last'.kind = "create") =>
            \A i \in DOMAIN invoices :
              ServerHydrated(invoices[i]) => invoices[i] \in SeqSet(invoices')]_vars

\* C22: a delete or a bulk delete takes off totalItems exactly the number of
\* records it removes from the cached page: an id that is not on the page
\* changes neither the records nor the pagination.
C22_AbsentIdNoOp ==
  [][(/\ last'.kind \in {"delete", "bulkDelete"}
      /\ last'.ev = "invoke"
      /\ ~invoiceListData.isNull) =>
        /\ invoiceListData'.pagination.totalItems =
             invoiceListData.pagination.totalItems
               - (Len(invoiceListData.invoices) - Len(invoiceListData'.invoices))
        /\ invoiceListData'.invoices = invoiceListData.invoices =>
             invoiceListData' = invoiceListData]_vars

\* C23: whenever a page is cached it holds at most pageSize records.
C23_PageSizeBound ==
  ~invoiceListData.isNull =>
     Len(invoiceListData.invoices) <= invoiceListData.pagination.pageSize

\* C24: when the POST of handleCreateInvoice or the PUT of handleUpdateInvoice
\* is answered 401 or another non-2xx status, the optimistic change is rolled
\* back (the temporary record is gone, the edited record is the snapshot
\* again) and the promise the handler returned rejects.
C24_FailureSurfaces ==
  [][\A o \in ops :
       (/\ o.kind \in {"create", "update"}
        /\ last'.n = o.n /\ last'.kind = o.kind
        /\ last'.status \in {"401", "fail"}) =>
          /\ last'.ev = "rollback"
          /\ o.kind = "create" => o.tempInvoice \notin SeqSet(invoices')
          /\ o.kind = "update" =>
               \A i \in DOMAIN invoices' :
                 invoices'[i].id = o.id => invoices'[i] = o.originalInvoice
          /\ last'.promise = "rejected"]_vars

\* ------------------------------------------------------------ gating claims
\* C25: canSubmitInvoice is true exactly for a Manager or an Admin and a Ready
\* invoice; canSelectForBulkOperation equals canSubmitInvoice for 'submit' and
\* canDeleteInvoice for 'delete'.
C25_SubmitGating ==
  answer.asked =>
     /\ answer.permissions.canSubmit
          <=> (userRole \in {"Manager", "Admin"} /\ invoiceStatus = READY)
     /\ answer.canSelectForBulkOperation["submit"] = answer.permissions.canSubmit
     /\ answer.canSelectForBulkOperation["delete"] = answer.permissions.canDelete

C25_Witness ==
  /\ answer.asked /\ userRole = "Manager" /\ invoiceStatus = READY
  /\ answer.permissions.canSubmit
  /\ answer.canSelectForBulkOperation["submit"]
  /\ answer.canSelectForBulkOperation["delete"]

\* C26: canDeleteInvoice equals canModifyInvoice for every role and status; a
\* Clerk may edit and delete a Draft although its only transition is Draft
\* itself; no role may edit or delete an AwaitingClearance or a Validated
\* invoice.
C26_EditDeleteDistinctFromTransition ==
  answer.asked =>
     /\ answer.permissions.canDelete = answer.permissions.canEdit
     /\ (userRole = "Clerk" /\ invoiceStatus = DRAFT) =>
          /\ answer.permissions.canEdit
          /\ answer.permissions.canDelete
          /\ answer.permissions.validStatusTransitions = <<DRAFT>>
     /\ invoiceStatus \in {AWAITING_CLEARANCE, VALIDATED} =>
          (~answer.permissions.canEdit /\ ~answer.permissions.canDelete)

C26_Witness ==
  /\ answer.asked /\ userRole = "Clerk" /\ invoiceStatus = DRAFT
  /\ answer.permissions.canDelete
  /\ ~answer.permissions.canChangeStatus
  /\ answer.permissions.validStatusTransitions = <<DRAFT>>

\* ------------------------------------------------------- same-id mutations
\* C27: when an update or a submit fails after another mutation on its id
\* succeeded (the cached record holds the answer of an update, which the
\* snapshot of the failing one does not), its rollback leaves the record as
\* the successful answer wrote it.
C27_AuthoritativeResponseWins ==
  [][\A o \in ops :
       (o.kind \in {"update", "submit"} /\ Step(o, "rollback")) =>
         \A i \in DOMAIN invoices :
           (/\ invoices[i].id = o.id
            /\ invoices[i].data = "server"
            /\ o.originalInvoice.data # "server") =>
             invoices'[i] = invoices[i]]_vars

\* The record an update or a submit leaves in `invoices` before its call
\* answers.
Optimistic(o) ==
  IF o.kind = "update" THEN o.updatedInvoice
  ELSE WithStatus(o.originalInvoice, AWAITING_CLEARANCE, 0, 0)

\* C28: when an update of an id starts while a first update or submit of that
\* id is in flight (and nothing else ran since the first started), the
\* snapshot of the second is the optimistic record of the first; and when an
\* update fails, its rollback sets every cached record of its id to its
\* snapshot.
C28_RaceSnapshotIsOptimistic ==
  [][/\ \A p \in ops : \A r \in ops' :
          (/\ p.kind \in {"update", "submit"} /\ RanAlone(p)
           /\ r.kind = "update" /\ r.n # p.n /\ r.id = p.id
           /\ last'.n = r.n /\ last'.ev = "invoke") =>
             r.originalInvoice = Optimistic(p)
     /\ \A r \in ops :
          (r.kind = "update" /\ Step(r, "rollback")) =>
            \A i \in DOMAIN invoices' :
              invoices'[i].id = r.id => invoices'[i] = r.originalInvoice]_vars

\* The second of two updates of the only cached record has failed while the
\* first is in flight: the record is the first one's edit, not the listed one.
C28_Witness ==
  /\ last.kind = "update" /\ last.ev = "rollback" /\ last.n = 2
  /\ Len(invoices) = 1
  /\ \E p \in ops :
       /\ p.kind = "update" /\ p.n = 1 /\ p.id = invoices[1].id
       /\ p.originalInvoice.data = "listed"
       /\ invoices[1] = p.updatedInvoice
       /\ invoices[1] # p.originalInvoice

\* ------------------------------------------------------------ order claims
\* C29: after the rollback of a failed delete or bulk delete the record
\* sequences of `invoices` and of invoiceListData.invoices are the sequences of
\* before the operation.  Stated for an operation that ran alone.
C29_OrderPreserved ==
  [][\A o \in ops :
       (o.kind \in {"delete", "bulkDelete"} /\ Step(o, "rollback") /\ RanAlone(o))
         => /\ [i \in DOMAIN invoices' |-> invoices'[i].id]
                 = [i \in DOMAIN o.before.invoices |-> o.before.invoices[i].id]
            /\ invoiceListData'.invoices = o.before.data.invoices]_vars

\* ---------------------------------------------------------- create claims
\* C30: when the POST of handleCreateInvoice is answered 2xx, no cached record
\* carries the temporary id afterwards; with a body the handler can parse the
\* server's record is the first of `invoices` and, when a page is cached, the
\* first of its records, and totalItems is one more; with no such body no
\* record is added and invoiceListData is unchanged.
C30_CreatePromotion ==
  [][\A o \in ops :
       (o.kind = "create" /\ Step(o, "commit")) =>
         /\ o.tempInvoice.id \notin IdSet(invoices')
         /\ last'.status = "json" =>
              /\ invoices' # <<>>
              /\ invoices'[1].data = "server"
              /\ Len(invoices') = Len(optimisticallyRemoveInvoice(invoices, o.tempInvoice.id)) + 1
              /\ ~invoiceListData.isNull =>
                   /\ invoiceListData'.invoices = <<invoices'[1]>> \o invoiceListData.invoices
                   /\ invoiceListData'.pagination.totalItems =
                        invoiceListData.pagination.totalItems + 1
         /\ last'.status = "empty" =>
              /\ invoices' = optimisticallyRemoveInvoice(invoices, o.tempInvoice.id)
              /\ invoiceListData' = invoiceListData]_vars

SubmitReconciled(prev, next, original, ids, results, alone) ==
  /\ Len(next) = Len(prev)
  /\ \A i \in DOMAIN prev :
       /\ (\A k \in DOMAIN ids : ids[k] # prev[i].id) => next[i] = prev[i]
       /\ \A k \in DOMAIN ids :
            ids[k] = prev[i].id =>
              IF results[k] # 0
              THEN next[i] = [prev[i] EXCEPT !.status = AWAITING_CLEARANCE,
                                             !.sub = results[k]]
              ELSE /\ next[i] = prev[i]
                   /\ alone =>
                        /\ Len(original) = Len(prev)
                        /\ next[i] = [original[i] EXCEPT !.status = AWAITING_CLEARANCE]

C33_TokenEvents ==
  [][/\ (last'.ev = "tokenRefreshed") =>
          /\ (last'.status # NoToken) => token' = last'.status
          /\ (last'.status = NoToken) => token' = token
          /\ company' = company
          /\ authStored' = authStored
          /\ invoices' = invoices
          /\ invoiceListData' = invoiceListData
     /\ (last'.ev = "tokenRefreshFailed") =>
          /\ token' = NoToken
          /\ company' = NoCompany
          /\ invoices' = invoices
          /\ invoiceListData' = invoiceListData]_vars

\* A refresh failure has cleared the session of a loaded cache.
C33_Witness ==
  /\ last.ev = "tokenRefreshFailed"
  /\ token = NoToken
  /\ company = NoCompany
  /\ invoices # <<>>
  /\ ~invoiceListData.isNull

\* The status each id has in a list of records.
StatusOf(s) == {<<s[i].id, s[i].status>> : i \in DOMAIN s}

\* `invoices` and the page hold the same record ids with the same statuses.
ViewsAgree(cachedInvoices, cachedData) ==
  StatusOf(cachedInvoices) = StatusOf(cachedData.invoices)

\* C34: whenever no mutation and no fetch is in flight, `invoices` and
\* invoiceListData.invoices hold the same record ids with the same status
\* per id; in particular an invocation that started alone on a loaded page
\* whose views agreed leaves them agreeing when it ends with a page repair or
\* with the rollback of a failed submit.
C34_ViewsAgreeWhenIdle ==
  [][\A o \in ops :
       (/\ RanAlone(o)
        /\ ~o.before.data.isNull
        /\ ViewsAgree(o.before.invoices, o.before.data)
        /\ \/ o.kind = "delete" /\ Step(o, "repaired")
           \/ o.kind = "submit" /\ Step(o, "rollback")
        /\ ops' = {})
         => ViewsAgree(invoices', invoiceListData')]_vars
\* The records of a list whose id is not among ids.
Others(s, ids) == SelectSeq(s, LAMBDA inv : \A k \in DOMAIN ids : inv.id # ids[k])

\* C35: the rollback of a failed delete or bulk delete (invoked on a loaded
\* page) leaves every record
\* with another id as it is in `invoices` and on the page (a record another
\* mutation removed meanwhile stays removed, one it added stays), and gives
\* totalItems back only what the failed invocation took.
C35_RollbackOwnRecordsOnly ==
  [][\A o \in ops :
       (/\ o.kind \in {"delete", "bulkDelete"} /\ Step(o, "rollback")
        /\ ~o.before.data.isNull) =>
         LET ids == IF o.kind = "delete" THEN <<o.id>> ELSE o.ids
         IN /\ Others(invoices', ids) = Others(invoices, ids)
            /\ Others(invoiceListData'.invoices, ids)
                 = Others(invoiceListData.invoices, ids)
            /\ invoiceListData'.pagination.totalItems
                 = invoiceListData.pagination.totalItems + Len(ids)]_vars

\* No id occurs twice in a list of records.
UniqueIds(s) == \A i, j \in DOMAIN s : s[i].id = s[j].id => i = j

\* The records of a list that the server delivered.
Delivered(s) == SelectSeq(s, ServerHydrated)

\* C36: in every reachable state no id occurs twice in `invoices` nor twice
\* in invoiceListData.invoices; stated for the records the server delivered,
\* whose ids the server keeps distinct.
C36_UniqueIds ==
  UniqueIds(Delivered(invoices)) /\ UniqueIds(Delivered(invoiceListData.invoices))

\* C37: in every reachable state the totalItems of a loaded page is at least
\* zero.
C37_TotalItemsNonNegative ==
  ~invoiceListData.isNull => invoiceListData.pagination.totalItems >= 0

\* The handlers that look their target up in `invoices` before anything else.
TargetedKinds == {"delete", "submit", "update"}

\* C38: handleDeleteInvoice, handleSubmitInvoice and handleUpdateInvoice
\* invoked with an id that is not in `invoices` (for update also with no id)
\* issue no call and leave `invoices`, invoiceListData and the session as
\* they are: every invocation of theirs that goes on to a call had its id in
\* `invoices`, and the step that rejects the others changes nothing.
C38_MissingTargetRejected ==
  [][/\ \A o \in ops' :
          (o.n > started /\ o.kind \in TargetedKinds) => o.id \in IdSet(invoices)
     /\ (last'.kind \in TargetedKinds /\ last'.ev = "notFound") =>
          /\ ops' = ops
          /\ invoices' = invoices
          /\ invoiceListData' = invoiceListData
          /\ token' = token
          /\ authStored' = authStored
          /\ company' = company]_vars

\* A submit was rejected for its id while the cache was loaded and another
\* invocation was in flight.
C38_Witness ==
  /\ last.kind = "submit"
  /\ last.ev = "notFound"
  /\ last.toast = <<"loading", "error">>
  /\ invoices # <<>>
  /\ ops # {}

\* C39: for every role and status s, canChangeInvoiceStatus(role, s) is true
\* exactly when getValidStatusTransitions(role, s) contains a status other
\* than s.
C39_ChangeAgreesWithTransitions ==
  answer.asked =>
     (answer.permissions.canChangeStatus
        <=> Elements(answer.permissions.validStatusTransitions) \ {invoiceStatus} # {})

\* C40: handleSubmit of the quote form never has two onSubmit calls in
\* flight: a submit while the form is disabled or submitting calls nothing
\* and changes nothing, and one that fails validation calls neither onSubmit
\* nor onClose; isSubmitting is false once onSubmit has settled, resolved or
\* rejected; and handleSubmit calls onClose only when onSubmit resolved.
C40_SubmissionGuard ==
  [][/\ pendingSubmits' <= 1
     /\ (onSubmitCalls' # onSubmitCalls) =>
          /\ ~disabled /\ ~isSubmitting /\ pendingSubmits = 0
          /\ validateForm(issueDate, customerId, quoteStatus, lines)
          /\ formLast'.ev = "submit"
     /\ (formLast'.ev = "ignored") =>
          UNCHANGED <<errors, isSubmitting, backendErrors, pendingSubmits,
                      onSubmitCalls, onCloseCalls>>
     /\ (formLast'.ev = "invalid") =>
          UNCHANGED <<isSubmitting, pendingSubmits, onSubmitCalls, onCloseCalls>>
     /\ (formLast'.ev = "settle") => ~isSubmitting'
     /\ (pendingSubmits' = 0) => ~isSubmitting'
     /\ (onCloseCalls' # onCloseCalls /\ formLast'.ev # "cancel") =>
          /\ formLast'.ev = "settle" /\ formLast'.outcome = "resolved"
          /\ onCloseCalls' = onCloseCalls + 1]_vars

\* A second submission, after the first was rejected, has resolved: the form
\* was closed once.
C40_Witness ==
  /\ formLast.ev = "settle"
  /\ formLast.outcome = "resolved"
  /\ onSubmitCalls = 2
  /\ onCloseCalls = 1
  /\ pendingSubmits = 0
  /\ ~isSubmitting

============================================================================
